---- MODULE Spec2Model ----
(***************************************************************************)
(* Gas tracker: the zustand store (gasStore) and the two variants of       *)
(* BlockchainService (the websocket one and the demo one) as one state     *)
(* machine.                                                                *)
(*                                                                         *)
(* Numbers.  Gas fees are fixed-point, in units of 1/FeeScale gwei; the    *)
(* ETH/USD price is in cents.  Date.now() is the variable now; time passes *)
(* when the environment delivers an event (an interval elapses, a block    *)
(* is mined), never inside a callback.                                     *)
(***************************************************************************)
EXTENDS Integers, Sequences, FiniteSets, Bags, TLC

VARIABLES
    variant,        \* which BlockchainService class is built: "live" | "sim" |
                    \* "none" (the store on its own)
    now,            \* Date.now()
    rng,            \* hidden state of Math.random()
    \* ---- gasStore
    mode, chains, ethUsdPrice, simulation, storeProviders, isLoading, error,
    \* ---- BlockchainService
    isInitialized,
    providers,      \* this.providers: the Map's entries, in insertion order
    timers,         \* intervals created by setInterval and not cleared
    initPc,         \* per initialize() call: the await it is suspended at
    handlers,       \* bag of handleNewBlock activations suspended at an await
    priceReqs,      \* bag of updateEthPrice activations started by the interval
    fetch,          \* the fetchCurrentGasData activation
    \* ---- the websocket providers and the chains behind them
    listeners,      \* per provider object: number of 'block' listeners
    opened,         \* provider objects whose getNetwork() succeeded
    destroyed,      \* provider objects on which destroy() was called
    head,           \* per chain: number of the latest block
    \* ---- bookkeeping of the environment and of the run
    inits,          \* initialize() calls that passed the guard
    blocks,         \* blocks mined so far
    priceTicks,     \* firings of the 30 s interval so far
    fetches,        \* fetchCurrentGasData() calls so far
    attempt,        \* per initialize() call and chain: outcome of its connection
                    \* attempt: "none" | "ok" | "failed" | "stalled" (never answers)
    appended,       \* per chain, every point handed to addGasPoint, in order
    stopped,        \* disconnect() has returned and initialize() was not called since
    lastOp          \* the step that produced this state, and how it went

storeVars == <<mode, chains, ethUsdPrice, simulation, storeProviders, isLoading, error>>
svcVars   == <<isInitialized, providers, timers, initPc, handlers, priceReqs, fetch>>
netVars   == <<listeners, opened, destroyed, head>>
envVars   == <<inits, blocks, priceTicks, fetches, attempt>>
progVars  == <<storeVars, svcVars, netVars>>
vars      == <<variant, now, rng, storeVars, svcVars, netVars, envVars,
               appended, stopped, lastOp>>

\* ------------------------------------------------------------------ bounds
MaxInits      == 2      \* initialize() calls that pass the guard
MaxInFlight   == 1      \* initialize() calls suspended at an await at one time
MaxInitTime   == 2      \* latest time at which initialize() is called
MaxTicks      == 102    \* firings of the 6 s interval of the demo service
MaxBlocks     == 1      \* blocks mined, all chains together
MaxPriceTicks == 1      \* firings of the 30 s interval of the websocket service
MaxFetches    == 1      \* fetchCurrentGasData() calls
MaxStorePoints == 2     \* addGasPoint calls made directly on the store
MaxStoreClock == 1      \* time that passes between direct calls on the store
MaxChartPoints == 3     \* length of the history that getChartData is given

\* --------------------------------------------------------------- constants
HistoryCap     == 100       \* slice(-100)
FeeScale       == 10000     \* fee unit: 1/10000 gwei
DemoEthPrice   == 234782    \* 2347.82, in cents
PriceFloor     == 100000    \* 1000, in cents
FallbackPrice  == 200000    \* 2000, in cents
\* a clamp of 0.05 gwei, above the lowest priority fee drawn for arbitrum
MinFeeAboveDraw == FeeScale \div 20
MinFee         == 100       \* 0.01 gwei
MinTotalFee    == 200       \* 0.02 gwei
RandomLevels   == 2         \* Math.random() yields k/RandomLevels, k = 0 or 1
ChartWindow    == 86400000  \* 24 * 60 * 60 * 1000 ms
DefaultInterval == 900000   \* 15 * 60 * 1000 ms
GweiPerEth     == 1000000000 \* 1e9
MicroPerUnit   == 1000000   \* native and fiat costs are held in millionths
CentsPerDollar == 100       \* ethUsdPrice is held in cents

ChainOrder == <<"ethereum", "polygon", "arbitrum">>
ChainIds   == {"ethereum", "polygon", "arbitrum"}

Max(a, b) == IF a >= b THEN a ELSE b

\* ------------------------------------------------------------------- store
initialChainData ==
    [name |-> "", symbol |-> "", rpcUrl |-> "", baseFee |-> 0, priorityFee |-> 0,
     gasPrice |-> 0, blockNumber |-> 0, history |-> <<>>, isConnected |-> FALSE,
     lastUpdate |-> 0]

\* { ...a, ...b } of JavaScript
Spread(a, b) == [f \in DOMAIN a \cup DOMAIN b |-> IF f \in DOMAIN b THEN b[f] ELSE a[f]]

InitialChains ==
    [c \in ChainIds |->
        IF c = "ethereum" THEN
            Spread(initialChainData, [name |-> "Ethereum", symbol |-> "ETH",
                                      rpcUrl |-> "wss://eth-mainnet.g.alchemy.com/v2/demo"])
        ELSE IF c = "polygon" THEN
            Spread(initialChainData, [name |-> "Polygon", symbol |-> "MATIC",
                                      rpcUrl |-> "wss://polygon-mainnet.g.alchemy.com/v2/demo"])
        ELSE
            Spread(initialChainData, [name |-> "Arbitrum", symbol |-> "ETH",
                                      rpcUrl |-> "wss://arb-mainnet.g.alchemy.com/v2/demo"])]

\* a text is the sequence of its characters: '0.1' is <<"0", ".", "1">>
InitialSimulation ==
    [amount |-> <<"0", ".", "1">>, gasLimit |-> 21000, chain |-> "ethereum"]

\* setSimulation: (data) => set(state => ({ simulation: { ...state.simulation, ...data } }))
setSimulation(sim, data) == Spread(sim, data)

DigitChars == <<"0", "1", "2", "3", "4", "5", "6", "7", "8", "9">>
IsDigit(ch) == \E i \in 1 .. Len(DigitChars) : DigitChars[i] = ch
DigitValue(ch) == (CHOOSE i \in 1 .. Len(DigitChars) : DigitChars[i] = ch) - 1

\* /^\d*\.?\d*$/.test(value): digits, at most one point among them
AmountPattern(value) ==
    \E k \in 0 .. Len(value) :
        /\ \A i \in 1 .. k : IsDigit(value[i])
        /\ \/ k = Len(value)
           \/ /\ value[k + 1] = "."
              /\ \A i \in k + 2 .. Len(value) : IsDigit(value[i])

\* parseInt(value): leading blanks skipped, an optional sign, then the longest
\* run of digits; NaN when that run is empty
RECURSIVE DigitRun(_, _)
DigitRun(s, acc) ==
    IF s = <<>> \/ ~IsDigit(Head(s)) THEN acc
    ELSE DigitRun(Tail(s), Append(acc, Head(s)))
RECURSIVE DigitsValue(_, _)
DigitsValue(s, acc) ==
    IF s = <<>> THEN acc ELSE DigitsValue(Tail(s), 10 * acc + DigitValue(Head(s)))
RECURSIVE SkipBlanks(_)
SkipBlanks(s) ==
    IF s # <<>> /\ Head(s) = " " THEN SkipBlanks(Tail(s)) ELSE s
parseInt(value) ==
    LET s      == SkipBlanks(value)
        signed == s # <<>> /\ Head(s) \in {"-", "+"}
        run    == DigitRun(IF signed THEN Tail(s) ELSE s, <<>>)
    IN  IF run = <<>> THEN [nan |-> TRUE, value |-> 0]
        ELSE [nan |-> FALSE,
              value |-> IF signed /\ Head(s) = "-" THEN 0 - DigitsValue(run, 0)
                        ELSE DigitsValue(run, 0)]

\* handleGasLimitChange(value): NaN and 0 are falsy
DefaultGasLimit == 21000
handleGasLimitChange(sim, value) ==
    LET parsed   == parseInt(value)
        numValue == IF parsed.nan \/ parsed.value = 0 THEN DefaultGasLimit
                    ELSE parsed.value
    IN  setSimulation(sim, [gasLimit |-> numValue])

\* handleAmountChange storing whatever is typed
handleAmountChangeUnchecked(sim, value) == setSimulation(sim, [amount |-> value])

\* handleAmountChange(value)
handleAmountChange(sim, value) ==
    IF value = <<>> \/ AmountPattern(value)
    THEN setSimulation(sim, [amount |-> value])
    ELSE sim

\* updateChainData: (chain, data) => set(...) ; t is Date.now().
\* state.chains[chain] of a key that chains does not have is undefined, and
\* { ...undefined } is {}.
\* updateChainData that also recomputes gasPrice from the merged fee fields
updateChainDataRecomputed(ch, chain, data, t) ==
    LET old    == IF chain \in DOMAIN ch THEN ch[chain] ELSE <<>>
        merged == Spread(old, data)
        sum    == (IF "baseFee" \in DOMAIN merged THEN merged.baseFee ELSE 0)
                  + (IF "priorityFee" \in DOMAIN merged THEN merged.priorityFee ELSE 0)
        new    == Spread(Spread(merged, [gasPrice |-> sum]), [lastUpdate |-> t])
    IN  [c \in DOMAIN ch \cup {chain} |-> IF c = chain THEN new ELSE ch[c]]

updateChainData(ch, chain, data, t) ==
    LET old == IF chain \in DOMAIN ch THEN ch[chain] ELSE <<>>
        new == Spread(Spread(old, data), [lastUpdate |-> t])
    IN  [c \in DOMAIN ch \cup {chain} |-> IF c = chain THEN new ELSE ch[c]]

\* Array.prototype.slice(-n)
SliceLast(s, n) ==
    IF Len(s) <= n THEN s ELSE SubSeq(s, Len(s) - n + 1, Len(s))

\* addGasPoint dropping the wrong end of the array
addGasPointKeepFirst(ch, chain, point) ==
    [ch EXCEPT ![chain] =
        [@ EXCEPT !.history =
            LET h == Append(@, point)
            IN  IF Len(h) <= HistoryCap THEN h ELSE SubSeq(h, 1, HistoryCap)]]

\* addGasPoint without the slice
addGasPointNoSlice(ch, chain, point) ==
    [ch EXCEPT ![chain] = [@ EXCEPT !.history = Append(@, point)]]

\* addGasPoint putting the point in front: [point, ...history]
addGasPointInFront(ch, chain, point) ==
    IF chain \notin DOMAIN ch \/ "history" \notin DOMAIN ch[chain] THEN ch
    ELSE [ch EXCEPT ![chain] =
             [@ EXCEPT !.history = SliceLast(<<point>> \o @, HistoryCap)]]

\* addGasPoint throws inside the updater: state.chains[chain] is undefined, or
\* it has no history to spread
addGasPointThrows(ch, chain) ==
    chain \notin DOMAIN ch \/ "history" \notin DOMAIN ch[chain]

\* addGasPoint: (chain, point) => set(...); no state is set when the updater throws
addGasPoint(ch, chain, point) ==
    IF addGasPointThrows(ch, chain) THEN ch
    ELSE [ch EXCEPT ![chain] =
             [@ EXCEPT !.history = SliceLast(Append(@, point), HistoryCap)]]

\* ---------------------------------------------------------- getChartData
\* the window filter leaving out the point captured exactly 24 h ago
filteredHistoryAfterStart(history, intervalStart) ==
    SelectSeq(history, LAMBDA point : point.timestamp > intervalStart)

\* history.filter(point => point.timestamp >= intervalStart)
filteredHistory(history, intervalStart) ==
    SelectSeq(history, LAMBDA point : point.timestamp >= intervalStart)

\* the bucket filter with its upper end closed
intervalPointsClosed(filtered, time, interval) ==
    SelectSeq(filtered, LAMBDA point :
        point.timestamp >= time /\ point.timestamp <= time + interval)

\* filteredHistory.filter(point => point.timestamp >= time &&
\*                                 point.timestamp < time + interval)
intervalPoints(filtered, time, interval) ==
    SelectSeq(filtered, LAMBDA point :
        point.timestamp >= time /\ point.timestamp < time + interval)

\* intervalPoints.reduce(...) from { baseFee: 0, priorityFee: 0, totalFee: 0 }
RECURSIVE reduceSum(_)
reduceSum(points) ==
    IF points = <<>> THEN [baseFee |-> 0, priorityFee |-> 0, totalFee |-> 0]
    ELSE LET acc   == reduceSum(SubSeq(points, 1, Len(points) - 1))
             point == points[Len(points)]
         IN  [baseFee     |-> acc.baseFee + point.baseFee,
              priorityFee |-> acc.priorityFee + point.priorityFee,
              totalFee    |-> acc.totalFee + point.totalFee]

\* the loop running over wall-clock multiples of the interval
loopTimesWallClock(intervalStart, t, interval) ==
    [k \in 1 .. ((t - intervalStart) \div interval) + 1 |->
        ((intervalStart \div interval) + k - 1) * interval]

\* the values `time` takes in `for (time = intervalStart; time <= now; time += interval)`;
\* t is the `now` of the call
loopTimes(intervalStart, t, interval) ==
    [k \in 1 .. ((t - intervalStart) \div interval) + 1 |->
        intervalStart + (k - 1) * interval]

\* the point pushed for a bucket that is not empty; the quotients are cut to
\* the fee unit
aggregatedPoint(filtered, time, interval) ==
    LET points == intervalPoints(filtered, time, interval)
        avg    == reduceSum(points)
    IN  [timestamp   |-> time,
         baseFee     |-> avg.baseFee \div Len(points),
         priorityFee |-> avg.priorityFee \div Len(points),
         totalFee    |-> avg.totalFee \div Len(points)]

\* getChartData: (chain, interval = 15 * 60 * 1000) => ... ; t is Date.now()
getChartData(ch, chain, interval, t) ==
    LET history       == ch[chain].history
        intervalStart == t - ChartWindow
        filtered      == filteredHistory(history, intervalStart)
        pushed        == SelectSeq(loopTimes(intervalStart, t, interval),
                             LAMBDA time : Len(intervalPoints(filtered, time, interval)) > 0)
    IN  IF Len(history) = 0 THEN <<>>
        ELSE [j \in 1 .. Len(pushed) |-> aggregatedPoint(filtered, pushed[j], interval)]

\* ------------------------------------------------ calculateTransactionCost
\* a * b / d, cut to an integer, without forming a * b
MulDiv(a, b, d) == (a \div d) * b + ((a % d) * b) \div d

\* calculateTransactionCost writing the recomputed gas price back to the store
storeAfterCostRefreshed(ch, chain) ==
    [ch EXCEPT ![chain].gasPrice = ch[chain].baseFee + ch[chain].priorityFee]

\* the store after calculateTransactionCost: it only reads get(), set is never called
storeAfterCost(ch, chain) == ch

\* calculateTransactionCost: (chain, gasLimit, amount) => {...}; price is
\* ethUsdPrice.  amount and the ETH results are in millionths of ETH, the USD
\* results in millionths of a dollar.
calculateTransactionCost(ch, price, chain, gasLimit, amount) ==
    LET chainData     == ch[chain]
        totalGasPrice == chainData.baseFee + chainData.priorityFee
        gasCostETH    == MulDiv(totalGasPrice, gasLimit, FeeScale)
                             \div (GweiPerEth \div MicroPerUnit)
        gasCostUSD    == MulDiv(gasCostETH, price, CentsPerDollar)
        totalCostETH  == gasCostETH + amount
        totalCostUSD  == MulDiv(totalCostETH, price, CentsPerDollar)
    IN  [gasCostETH |-> gasCostETH, gasCostUSD |-> gasCostUSD,
         totalCostETH |-> totalCostETH, totalCostUSD |-> totalCostUSD]

\* parseFloat(value) in millionths, for the texts the amount field lets through
\* (digits, at most one point): the digits before and after the point; NaN when
\* there is no digit
parseFloat(value) ==
    LET whole == DigitRun(value, <<>>)
        rest  == SubSeq(value, Len(whole) + 1, Len(value))
        frac  == IF rest # <<>> /\ Head(rest) = "." THEN DigitRun(Tail(rest), <<>>)
                 ELSE <<>>
        kept  == SubSeq(frac, 1, IF Len(frac) < 6 THEN Len(frac) ELSE 6)
        pad   == [n \in 0 .. 6 |->
                     IF n = 0 THEN 1 ELSE IF n = 1 THEN 10 ELSE IF n = 2 THEN 100
                     ELSE IF n = 3 THEN 1000 ELSE IF n = 4 THEN 10000
                     ELSE IF n = 5 THEN 100000 ELSE MicroPerUnit]
    IN  IF whole = <<>> /\ frac = <<>> THEN [nan |-> TRUE, value |-> 0]
        ELSE [nan |-> FALSE,
              value |-> DigitsValue(whole, 0) * MicroPerUnit
                        + DigitsValue(kept, 0) * pad[6 - Len(kept)]]

\* getTransactionCosts of the panel: NaN is falsy
getTransactionCosts(sim, ch, price) ==
    LET parsed   == parseFloat(sim.amount)
        amount   == IF parsed.nan THEN 0 ELSE parsed.value
        gasLimit == sim.gasLimit
    IN  [c \in ChainIds |-> calculateTransactionCost(ch, price, c, gasLimit, amount)]

\* getCheapestChain replacing the candidate also on equal cost
getCheapestChainLastWins(costs) ==
    LET step(cheapest, chain) ==
            IF costs[chain].gasCostUSD <= costs[cheapest].gasCostUSD THEN chain
            ELSE cheapest
    IN  step(step(step(ChainOrder[1], ChainOrder[1]), ChainOrder[2]), ChainOrder[3])

\* getCheapestChain: Object.entries(costs).reduce(...), the entries in the order
\* the object literal lists them, starting from the first entry
getCheapestChain(costs) ==
    LET step(cheapest, chain) ==
            IF costs[chain].gasCostUSD < costs[cheapest].gasCostUSD THEN chain
            ELSE cheapest
    IN  step(step(step(ChainOrder[1], ChainOrder[1]), ChainOrder[2]), ChainOrder[3])

\* ------------------------------------------------- the pool price conversion
\* sqrtPriceX96 is a 160-bit bigint and the conversion works on numbers of the
\* order of 2^192 * 10^18: they are held as sequences of limbs, least
\* significant first, without leading zero limbs (0 is the empty sequence).
BigBase == 1000

RECURSIVE BigCarry(_, _, _, _)
BigCarry(raw, i, carry, acc) ==
    IF i > Len(raw)
    THEN IF carry = 0 THEN acc
         ELSE BigCarry(raw, i, carry \div BigBase, Append(acc, carry % BigBase))
    ELSE BigCarry(raw, i + 1, (raw[i] + carry) \div BigBase,
                  Append(acc, (raw[i] + carry) % BigBase))

BigNorm(raw) ==
    LET s  == BigCarry(raw, 1, 0, <<>>)
        nz == {i \in 1 .. Len(s) : s[i] # 0}
    IN  IF nz = {} THEN <<>>
        ELSE SubSeq(s, 1, CHOOSE i \in nz : \A j \in nz : j <= i)

BigFromInt(n) == BigNorm(<<n>>)

BigLimb(a, i) == IF i <= Len(a) THEN a[i] ELSE 0

BigAdd(a, b) ==
    BigNorm([k \in 1 .. (IF Len(a) > Len(b) THEN Len(a) ELSE Len(b)) |->
                 BigLimb(a, k) + BigLimb(b, k)])

RECURSIVE BigDot(_, _, _, _, _)
BigDot(a, b, k, i, acc) ==
    IF i > Len(a) \/ i > k THEN acc
    ELSE BigDot(a, b, k, i + 1, acc + a[i] * BigLimb(b, k - i + 1))

BigMul(a, b) ==
    IF a = <<>> \/ b = <<>> THEN <<>>
    ELSE BigNorm([k \in 1 .. Len(a) + Len(b) |-> BigDot(a, b, k, 1, 0)])

BigLess(a, b) ==
    IF Len(a) # Len(b) THEN Len(a) < Len(b)
    ELSE LET d == {i \in 1 .. Len(a) : a[i] # b[i]}
         IN  d # {} /\ LET m == CHOOSE i \in d : \A j \in d : j <= i
                       IN  a[m] < b[m]

BigLeq(a, b) == a = b \/ BigLess(a, b)

\* 2 ** 192 and 10 ** 6 of the conversion
Two192 ==
    LET t24 == BigFromInt(16777216)
        t48 == BigMul(t24, t24)
        t96 == BigMul(t48, t48)
    IN  BigMul(t96, t96)
Ten6 == BigFromInt(1000000)

\* calculatePriceFromSqrtPriceX96 returning price instead of 1 / price
calculatePriceNotInverted(sqrtPriceX96) ==
    [num |-> BigMul(BigMul(sqrtPriceX96, sqrtPriceX96), Ten6),
     den |-> BigMul(Two192, BigMul(Ten6, BigMul(Ten6, Ten6)))]

\* calculatePriceFromSqrtPriceX96: price = sqrtPrice ** 2 * 10 ** 6 /
\* (2 ** 192 * 10 ** 18), and 1 / price is returned.  The result is the exact
\* quotient num / den; the rounding of the doubles is added by the caller.
calculatePriceFromSqrtPriceX96(sqrtPriceX96) ==
    [num |-> BigMul(Two192, BigMul(Ten6, BigMul(Ten6, Ten6))),
     den |-> BigMul(BigMul(sqrtPriceX96, sqrtPriceX96), Ten6)]

\* Number(sqrtPriceX96), **, *, / and 1 / each round to 53 bits: the double
\* returned lies within 1e-14 of the exact quotient, below, on or above it
RoundingSteps == {0 - 1, 0, 1}
Ten14 == LET t7 == BigFromInt(10000000) IN BigMul(t7, t7)
Rounded(q, r) ==
    [num |-> BigMul(q.num, Ten14),
     den |-> BigMul(q.den, IF r = 0 THEN Ten14
                           ELSE IF r = 1 THEN BigAdd(Ten14, BigFromInt(1))
                           ELSE BigAdd(BigMul(BigFromInt(9999999), BigFromInt(10000000)),
                                       BigFromInt(9999999)))]

\* the sqrtPriceX96 of a pool in which one ETH costs c cents: the largest s
\* with s^2 <= 2^192 * 10^12 / (c / 100), found digit by digit
BigDigit(d, k) ==
    IF d = 0 THEN <<>>
    ELSE [i \in 1 .. (k \div 3) + 1 |->
             IF i = (k \div 3) + 1
             THEN d * (IF k % 3 = 0 THEN 1 ELSE IF k % 3 = 1 THEN 10 ELSE 100)
             ELSE 0]
SqrtBound == BigMul(Two192, Ten14)
SqrtDigits == 36
RECURSIVE SqrtSearch(_, _, _)
SqrtSearch(c, k, cur) ==
    IF k < 0 THEN cur
    ELSE LET cand(d) == BigAdd(cur, BigDigit(d, k))
             fits(d) == BigLeq(BigMul(BigMul(cand(d), cand(d)), c), SqrtBound)
             best    == CHOOSE d \in 0 .. 9 : fits(d) /\ (d = 9 \/ ~fits(d + 1))
             next    == cand(best)
         IN  IF next = cur THEN SqrtSearch(c, k - 1, cur)
             ELSE SqrtSearch(c, k - 1, next)
SqrtPriceX96For(cents) == SqrtSearch(BigFromInt(cents), SqrtDigits - 1, <<>>)

\* ------------------------------------------------------------ Math.random
\* Math.random() is a generator with hidden state: the k-th call returns
\* Random(rng)/RandomLevels and moves the state on.
Random(r)     == r % RandomLevels
NextRandom(r) == (r + 1) % RandomLevels

\* x + (Math.random() - 0.5) * w, with Math.random() = k/RandomLevels
Jitter(x, k, w) == x + ((2 * k - RandomLevels) * w) \div (2 * RandomLevels)

\* ------------------------------------------------------- demo service
baseGasPrices ==
    [c \in ChainIds |->
        IF c = "ethereum" THEN [base |-> 15 * FeeScale, priority |-> 2 * FeeScale,
                                variance |-> 5 * FeeScale]
        ELSE IF c = "polygon" THEN [base |-> 35 * FeeScale, priority |-> 30 * FeeScale,
                                    variance |-> 10 * FeeScale]
        ELSE [base |-> FeeScale \div 10, priority |-> FeeScale \div 20,
              variance |-> FeeScale \div 20]]

\* One pass of the forEach body of updateSimulatedData for chain c.
\* st = [chains, rng, log]; price is store.ethUsdPrice of the snapshot taken
\* at the top of updateSimulatedData.
SimulateChain(st, c, price, t) ==
    LET config      == baseGasPrices[c]
        baseFee     == Jitter(config.base, Random(st.rng), config.variance)
        r2          == NextRandom(st.rng)
        priorityFee == Jitter(config.priority, Random(r2), (config.variance * 3) \div 10)
        totalFee    == baseFee + priorityFee
        gasPoint    == [timestamp |-> t,
                        baseFee |-> Max(MinFee, baseFee),
                        priorityFee |-> Max(MinFee, priorityFee),
                        totalFee |-> Max(MinTotalFee, totalFee),
                        usdPrice |-> price]
        updated     == updateChainData(st.chains, c,
                           [baseFee |-> gasPoint.baseFee,
                            priorityFee |-> gasPoint.priorityFee,
                            gasPrice |-> gasPoint.totalFee,
                            blockNumber |-> t], t)
    IN  [chains |-> addGasPoint(updated, c, gasPoint),
         rng    |-> NextRandom(r2),
         log    |-> [st.log EXCEPT ![c] = Append(@, gasPoint)]]

\* updateSimulatedData whose forEach leaves out the last chain
updateSimulatedDataTwoChains(ch, price, r, log, t) ==
    LET s0 == [chains |-> ch, rng |-> r, log |-> log]
        s1 == SimulateChain(s0, ChainOrder[1], price, t)
        s2 == SimulateChain(s1, ChainOrder[2], price, t)
        priceChange == Jitter(0, Random(s2.rng), 10 * 100)
    IN  [chains |-> s2.chains,
         rng    |-> NextRandom(s2.rng),
         log    |-> s2.log,
         price  |-> Max(PriceFloor, price + priceChange)]

\* updateSimulatedData without the Math.max(1000, ...) on the price
updateSimulatedDataUnclamped(ch, price, r, log, t) ==
    LET s0 == [chains |-> ch, rng |-> r, log |-> log]
        s1 == SimulateChain(s0, ChainOrder[1], price, t)
        s2 == SimulateChain(s1, ChainOrder[2], price, t)
        s3 == SimulateChain(s2, ChainOrder[3], price, t)
        priceChange == Jitter(0, Random(s3.rng), 10 * 100)
    IN  [chains |-> s3.chains,
         rng    |-> NextRandom(s3.rng),
         log    |-> s3.log,
         price  |-> price + priceChange]

\* updateSimulatedData: the three chains in order, then the price walk.
\* Result: [chains, rng, log, price].
updateSimulatedData(ch, price, r, log, t) ==
    LET s0 == [chains |-> ch, rng |-> r, log |-> log]
        s1 == SimulateChain(s0, ChainOrder[1], price, t)
        s2 == SimulateChain(s1, ChainOrder[2], price, t)
        s3 == SimulateChain(s2, ChainOrder[3], price, t)
        priceChange == Jitter(0, Random(s3.rng), 10 * 100)
    IN  [chains |-> s3.chains,
         rng    |-> NextRandom(s3.rng),
         log    |-> s3.log,
         price  |-> Max(PriceFloor, price + priceChange)]

\* ------------------------------------------------- Map and provider objects
\* A provider object is named by the initialize() call that built it and its chain.
Calls      == 1 .. MaxInits
Pids       == Calls \X ChainIds
NoProvider == <<>>

MapHas(m, k)    == \E i \in 1 .. Len(m) : m[i].key = k
MapGet(m, k)    == m[CHOOSE i \in 1 .. Len(m) : m[i].key = k].value
MapSet(m, k, v) ==
    IF MapHas(m, k)
    THEN [i \in 1 .. Len(m) |-> IF m[i].key = k THEN [key |-> k, value |-> v] ELSE m[i]]
    ELSE Append(m, [key |-> k, value |-> v])
MapValues(m)    == {m[i].value : i \in 1 .. Len(m)}

\* setProvider: (chain, provider) => set(...)
setProvider(sp, chain, provider) ==
    [c \in DOMAIN sp \cup {chain} |-> IF c = chain THEN provider ELSE sp[c]]

\* what the network can answer to a request sent through provider p
Answers(p, live) == IF p \in destroyed THEN {"throw"} ELSE live

\* ------------------------------------------------------- both services
DefaultPriorityFee == 2 * FeeScale      \* let priorityFee = 2
BlockBaseFees == {0, 10 * FeeScale}     \* block.baseFeePerGas; 0: the field is absent
FeeDataGasPrices == {0, 30 * FeeScale}  \* feeData.gasPrice; 0: null
PoolPrices == {180000}                  \* the price read from slot0, in cents

\* done lists, for the chains the running (or last) call has dealt with, whether
\* the call appended a point for the chain
IdleFetch == [pc |-> "idle", idx |-> 0, chain |-> "", provider |-> NoProvider,
              done |-> <<>>]

\* for (const [chainName, provider] of this.providers): the next entry of the
\* live Map iterator, idx entries being consumed already
FetchAdvance(f, m) ==
    IF f.idx < Len(m)
    THEN [pc |-> "getBlockNumber", idx |-> f.idx + 1,
          chain |-> m[f.idx + 1].key, provider |-> m[f.idx + 1].value,
          done |-> f.done]
    ELSE [IdleFetch EXCEPT !.done = f.done]

\* the loop body of fetchCurrentGasData ends for the chain at hand
FetchNoted(f, outcome) == [f EXCEPT !.done = Append(@, <<f.chain, outcome>>)]

\* fetchCurrentGasData resumes when the handleNewBlock it awaits returns
FetchAfterHandler(h, outcome) ==
    IF h.owner = "fetch" THEN FetchAdvance(FetchNoted(fetch, outcome), providers)
    ELSE fetch

\* handleNewBlock ends without touching the store (block is null, or the catch)
HandlerReturn(h) ==
    /\ handlers' = handlers (-) SetToBag({h})
    /\ fetch' = FetchAfterHandler(h, "none")
    /\ UNCHANGED <<chains, appended>>

\* handleNewBlock writing the base fee where the snapshot's gasPrice goes
HandlerCompleteGasPriceIsBaseFee(h, baseFee, priorityFee, usdPrice) ==
    LET totalFee == baseFee + priorityFee
        gasPoint == [timestamp |-> now, baseFee |-> baseFee, priorityFee |-> priorityFee,
                     totalFee |-> totalFee, usdPrice |-> usdPrice]
        updated  == updateChainData(chains, h.chain,
                        [baseFee |-> baseFee, priorityFee |-> priorityFee,
                         gasPrice |-> baseFee, blockNumber |-> h.blockNumber], now)
    IN  /\ chains' = addGasPoint(updated, h.chain, gasPoint)
        /\ appended' = [appended EXCEPT ![h.chain] = Append(@, gasPoint)]
        /\ handlers' = handlers (-) SetToBag({h})
        /\ fetch' = FetchAfterHandler(h, "point")

\* handleNewBlock from `const totalFee` to the end
HandlerComplete(h, baseFee, priorityFee, usdPrice) ==
    LET totalFee == baseFee + priorityFee
        gasPoint == [timestamp |-> now, baseFee |-> baseFee, priorityFee |-> priorityFee,
                     totalFee |-> totalFee, usdPrice |-> usdPrice]
        updated  == updateChainData(chains, h.chain,
                        [baseFee |-> baseFee, priorityFee |-> priorityFee,
                         gasPrice |-> totalFee, blockNumber |-> h.blockNumber], now)
    IN  /\ chains' = addGasPoint(updated, h.chain, gasPoint)
        /\ appended' = [appended EXCEPT ![h.chain] = Append(@, gasPoint)]
        /\ handlers' = handlers (-) SetToBag({h})
        /\ fetch' = FetchAfterHandler(h, "point")

\* handleNewBlock resumes from `await provider.getBlock(blockNumber, false)`
HandlerGetBlock ==
    \E h \in BagToSet(handlers) :
    \E answer \in Answers(h.provider, {"throw", "null", "block"}) :
    \E baseFeePerGas \in (IF answer = "block" THEN BlockBaseFees ELSE {0}) :
        /\ h.at = "getBlock"
        /\ IF answer # "block"
           THEN HandlerReturn(h)
           ELSE LET baseFee == IF baseFeePerGas # 0 THEN baseFeePerGas ELSE 0
                IN  IF h.chain = "polygon" \/ h.chain = "arbitrum"
                    THEN /\ handlers' = (handlers (-) SetToBag({h})) (+)
                                SetToBag({[h EXCEPT !.at = "getFeeData",
                                                    !.baseFee = baseFee,
                                                    !.usdPrice = ethUsdPrice]})
                         /\ UNCHANGED <<chains, appended, fetch>>
                    ELSE HandlerComplete(h, baseFee, DefaultPriorityFee, ethUsdPrice)
        /\ lastOp' = <<"handleNewBlock", h.provider \in destroyed, h.chain, baseFeePerGas>>
        /\ UNCHANGED <<variant, now, rng, mode, ethUsdPrice, simulation, storeProviders,
                       isLoading, error, isInitialized, providers, timers, initPc,
                       priceReqs, netVars, envVars, stopped>>

\* handleNewBlock resumes from `await provider.getFeeData()`
HandlerGetFeeData ==
    \E h \in BagToSet(handlers) :
    \E answer \in Answers(h.provider, {"throw", "feeData"}) :
    \E gasPrice \in (IF answer = "feeData" THEN FeeDataGasPrices ELSE {0}) :
        /\ h.at = "getFeeData"
        /\ IF gasPrice # 0
           THEN HandlerComplete(h, (gasPrice * 8) \div 10, (gasPrice * 2) \div 10, h.usdPrice)
           ELSE HandlerComplete(h, h.baseFee, DefaultPriorityFee, h.usdPrice)
        /\ lastOp' = <<"handleNewBlock", h.provider \in destroyed, h.chain, h.baseFee>>
        /\ UNCHANGED <<variant, now, rng, mode, ethUsdPrice, simulation, storeProviders,
                       isLoading, error, isInitialized, providers, timers, initPc,
                       priceReqs, netVars, envVars, stopped>>

\* a block of chain c is mined: every 'block' listener of every provider of
\* that chain is called, and each call runs handleNewBlock up to its first await
BlockMined ==
    \E c \in ChainIds :
        /\ blocks < MaxBlocks
        /\ \E p \in Pids : p[2] = c /\ listeners[p] > 0
        /\ blocks' = blocks + 1
        /\ now' = now + 1
        /\ head' = [head EXCEPT ![c] = @ + 1]
        /\ LET started == {p \in Pids : p[2] = c /\ listeners[p] > 0}
               new == [h \in {[chain |-> c, blockNumber |-> head'[c], provider |-> p,
                               at |-> "getBlock", baseFee |-> 0, usdPrice |-> 0,
                               owner |-> "listener"] : p \in started}
                          |-> listeners[h.provider]]
           IN  handlers' = handlers (+) new
        /\ lastOp' = <<"block">>
        /\ UNCHANGED <<variant, rng, storeVars, isInitialized, providers, timers, initPc,
                       priceReqs, fetch, listeners, opened, destroyed, inits, priceTicks,
                       fetches, attempt, appended, stopped>>

\* fetchCurrentGasData resumes from `await provider.getBlockNumber()`
FetchGetBlockNumber ==
    \E answer \in Answers(fetch.provider, {"throw", "number"}) :
        /\ fetch.pc = "getBlockNumber"
        /\ IF answer = "number"
           THEN /\ handlers' = handlers (+)
                       SetToBag({[chain |-> fetch.chain, blockNumber |-> head[fetch.chain],
                                  provider |-> fetch.provider, at |-> "getBlock",
                                  baseFee |-> 0, usdPrice |-> 0, owner |-> "fetch"]})
                /\ fetch' = [fetch EXCEPT !.pc = "handleNewBlock"]
           ELSE /\ fetch' = FetchAdvance(FetchNoted(fetch, "none"), providers)
                /\ UNCHANGED handlers
        /\ lastOp' = <<"fetch">>
        /\ UNCHANGED <<variant, now, rng, storeVars, isInitialized, providers, timers,
                       initPc, priceReqs, netVars, envVars, appended, stopped>>

\* setMode starting from empty histories
setModeChainsCleared == [c \in DOMAIN chains |-> [chains[c] EXCEPT !.history = <<>>]]
\* setMode: (mode) => set({ mode }): chains is not part of the update
setModeChains == chains

\* setMode(m), from the Live / Simulation buttons; the effect of
\* useBlockchainData calls fetchCurrentGasData() when the mode becomes 'simulation'
SetMode ==
    \E m \in {"live", "simulation"} :
        /\ mode' = m
        /\ chains' = setModeChains
        /\ IF m = "simulation" /\ mode # m
           THEN /\ fetch.pc = "idle"
                /\ fetches < MaxFetches
                /\ fetches' = fetches + 1
                /\ fetch' = FetchAdvance(IdleFetch, providers)
           ELSE UNCHANGED <<fetch, fetches>>
        /\ lastOp' = <<"setMode">>
        /\ UNCHANGED <<variant, now, rng, ethUsdPrice, simulation, storeProviders,
                       isLoading, error, isInitialized, providers, timers, initPc,
                       handlers, priceReqs, netVars, inits, blocks, priceTicks, attempt,
                       appended, stopped>>

\* disconnect() flipping the flag instead of clearing it
DisconnectToggles == ~isInitialized
\* this.isInitialized = false
DisconnectFlag == FALSE

\* disconnect()
Disconnect ==
    /\ listeners' = [p \in Pids |-> IF p \in MapValues(providers) THEN 0 ELSE listeners[p]]
    /\ destroyed' = destroyed \cup MapValues(providers)
    /\ providers' = <<>>
    /\ isInitialized' = DisconnectFlag
    \* Map.prototype.clear empties the entries a live iterator has yet to visit
    /\ fetch' = IF fetch.pc = "idle" THEN fetch ELSE [fetch EXCEPT !.idx = 0]
    /\ stopped' = TRUE
    /\ lastOp' = <<"disconnect", lastOp[1] = "disconnect" \/ inits = 0>>
    /\ UNCHANGED <<variant, now, rng, storeVars, timers, initPc, handlers, priceReqs,
                   opened, head, envVars, appended>>

\* ------------------------------------------------------- websocket service
\* updateEthPrice after `await poolContract.slot0()`: the new store.ethUsdPrice
PriceAfter(answer, price) ==
    IF answer = "slot0" THEN price
    ELSE IF ethUsdPrice = 0 THEN FallbackPrice ELSE ethUsdPrice

\* setInterval(...): one more interval is scheduled
SetInterval == timers + 1

\* initialize() from `setInterval` to the end of the try block
InitializeFinish(k) ==
    /\ timers' = SetInterval
    /\ isInitialized' = TRUE
    /\ isLoading' = FALSE
    /\ error' = "null"
    /\ initPc' = [initPc EXCEPT ![k] = [at |-> "done", provider |-> NoProvider]]

\* initialize() without the isInitialized guard
InitializedGuardMissing == FALSE
\* if (this.isInitialized) return
InitializedGuard == isInitialized

\* initialize() of the websocket service, up to the first await, with at most
\* inFlight calls of it suspended at a time
LiveInitializeAmong(inFlight) ==
    /\ variant = "live"
    /\ lastOp' = <<"initialize", isInitialized>>
    /\ IF InitializedGuard
       THEN UNCHANGED <<initPc, inits, stopped>>
       ELSE /\ inits < MaxInits
            /\ now <= MaxInitTime
            /\ Cardinality({k \in Calls : initPc[k].at \notin {"idle", "done"}}) < inFlight
            /\ inits' = inits + 1
            /\ stopped' = FALSE
            /\ initPc' = [initPc EXCEPT ![inits + 1] =
                              [at |-> "ethereum", provider |-> NoProvider]]
    /\ UNCHANGED <<variant, now, rng, storeVars, isInitialized, providers, timers,
                   handlers, priceReqs, fetch, netVars, blocks, priceTicks, fetches,
                   attempt, appended>>

LiveInitialize == LiveInitializeAmong(MaxInFlight)

\* initialize() called again while an earlier call of it is suspended
LiveInitializeAgain == LiveInitializeAmong(MaxInFlight + 1)

\* setupProvider(c, ...) of call k resumes from `await provider.getNetwork()`;
\* initialize() goes on to the next await
ConnectResolve ==
    \E k \in Calls : \E ok \in BOOLEAN :
        /\ initPc[k].at \in ChainIds
        /\ attempt[k][initPc[k].at] # "stalled"
        /\ LET c    == initPc[k].at
               pid  == <<k, c>>
               map1 == IF ok THEN MapSet(providers, c, pid) ELSE providers
           IN  /\ providers' = map1
               /\ storeProviders' = IF ok THEN setProvider(storeProviders, c, pid)
                                    ELSE storeProviders
               /\ chains' = updateChainData(chains, c, [isConnected |-> ok], now)
               /\ opened' = IF ok THEN opened \cup {pid} ELSE opened
               /\ attempt' = [attempt EXCEPT ![k][c] = IF ok THEN "ok" ELSE "failed"]
               /\ IF c # "arbitrum"
                  THEN /\ initPc' = [initPc EXCEPT ![k] =
                               [at |-> IF c = "ethereum" THEN "polygon" ELSE "arbitrum",
                                provider |-> NoProvider]]
                       /\ lastOp' = <<"connect">>
                       /\ UNCHANGED <<listeners, timers, isInitialized, isLoading, error>>
                  ELSE \* startBlockListeners(), then updateEthPrice()
                       /\ listeners' = [p \in Pids |->
                               IF p \in MapValues(map1) THEN listeners[p] + 1
                               ELSE listeners[p]]
                       /\ IF MapHas(map1, "ethereum")
                          THEN /\ initPc' = [initPc EXCEPT ![k] =
                                       [at |-> "price",
                                        provider |-> MapGet(map1, "ethereum")]]
                               /\ lastOp' = <<"connect">>
                               /\ UNCHANGED <<timers, isInitialized, isLoading, error>>
                          ELSE \* updateEthPrice() returns at `if (!ethProvider)`
                               /\ InitializeFinish(k)
                               /\ lastOp' = <<"initialized", k, "unavailable">>
        /\ UNCHANGED <<variant, now, rng, mode, ethUsdPrice, simulation, handlers,
                       priceReqs, fetch, destroyed, head, inits, blocks, priceTicks,
                       fetches, appended, stopped>>

\* the endpoint of the chain that setupProvider of call k is connecting to
\* never answers: `await provider.getNetwork()` neither resolves nor rejects
ConnectStall ==
    \E k \in Calls :
        /\ initPc[k].at \in ChainIds
        /\ attempt[k][initPc[k].at] = "none"
        /\ attempt' = [attempt EXCEPT ![k][initPc[k].at] = "stalled"]
        /\ lastOp' = <<"stall">>
        /\ UNCHANGED <<variant, now, rng, storeVars, svcVars, netVars, inits, blocks,
                       priceTicks, fetches, appended, stopped>>

\* the updateEthPrice() awaited by initialize() resumes from `await slot0()`
InitPriceResolve ==
    \E k \in Calls :
    \E answer \in Answers(initPc[k].provider, {"throw", "slot0"}) :
    \E price \in PoolPrices :
        /\ initPc[k].at = "price"
        /\ ethUsdPrice' = PriceAfter(answer, price)
        /\ InitializeFinish(k)
        /\ lastOp' = <<"initialized", k, answer>>
        /\ UNCHANGED <<variant, now, rng, mode, chains, simulation, storeProviders,
                       providers, handlers, priceReqs, fetch, netVars, envVars,
                       appended, stopped>>

\* the 30 s interval fires: () => this.updateEthPrice(), up to its await
PriceTick ==
    /\ variant = "live"
    /\ timers > 0
    /\ priceTicks < MaxPriceTicks
    /\ priceTicks' = priceTicks + 1
    /\ now' = now + 1
    /\ priceReqs' = IF MapHas(providers, "ethereum")
                    THEN priceReqs (+) SetToBag({MapGet(providers, "ethereum")})
                    ELSE priceReqs
    /\ lastOp' = <<"priceTick", IF MapHas(providers, "ethereum") THEN "pending"
                                 ELSE "unavailable">>
    /\ UNCHANGED <<variant, rng, storeVars, isInitialized, providers, timers, initPc,
                   handlers, fetch, netVars, inits, blocks, fetches, attempt,
                   appended, stopped>>

\* an updateEthPrice() started by the interval resumes from `await slot0()`
PriceResolve ==
    \E p \in BagToSet(priceReqs) :
    \E answer \in Answers(p, {"throw", "slot0"}) :
    \E price \in PoolPrices :
        /\ priceReqs' = priceReqs (-) SetToBag({p})
        /\ ethUsdPrice' = PriceAfter(answer, price)
        /\ lastOp' = <<"price", answer>>
        /\ UNCHANGED <<variant, now, rng, mode, chains, simulation, storeProviders,
                       isLoading, error, isInitialized, providers, timers, initPc,
                       handlers, fetch, netVars, envVars, appended, stopped>>

\* ------------------------------------------------------- demo service
\* setupDemoData followed by the rest of initialize (demo service)
SimInitializeBody ==
    LET c1 == updateChainData(chains, "ethereum", [isConnected |-> TRUE], now)
        c2 == updateChainData(c1, "polygon", [isConnected |-> TRUE], now)
        c3 == updateChainData(c2, "arbitrum", [isConnected |-> TRUE], now)
        u  == updateSimulatedData(c3, DemoEthPrice, rng, appended, now)
    IN  /\ chains' = u.chains
        /\ ethUsdPrice' = u.price
        /\ rng' = u.rng
        /\ appended' = u.log
        /\ timers' = SetInterval
        /\ isInitialized' = TRUE
        /\ isLoading' = FALSE
        /\ error' = "null"
        /\ UNCHANGED <<mode, simulation, storeProviders>>

\* initialize() of the demo service
SimInitialize ==
    /\ variant = "sim"
    /\ lastOp' = <<"initialize", isInitialized>>
    /\ IF InitializedGuard
       THEN UNCHANGED <<storeVars, isInitialized, timers, rng, appended, inits, stopped>>
       ELSE /\ inits < MaxInits
            /\ now <= MaxInitTime
            /\ inits' = inits + 1
            /\ stopped' = FALSE
            /\ SimInitializeBody
    /\ UNCHANGED <<variant, now, providers, initPc, handlers, priceReqs, fetch, netVars,
                   blocks, priceTicks, fetches, attempt>>

\* the 6 s interval fires: () => this.updateSimulatedData()
SimTick ==
    /\ variant = "sim"
    /\ timers > 0
    /\ now < MaxTicks
    /\ now' = now + 1
    /\ LET u == updateSimulatedData(chains, ethUsdPrice, rng, appended, now')
       IN  /\ chains' = u.chains
           /\ ethUsdPrice' = u.price
           /\ rng' = u.rng
           /\ appended' = u.log
    /\ lastOp' = <<"tick">>
    /\ UNCHANGED <<variant, mode, simulation, storeProviders, isLoading, error,
                   svcVars, netVars, envVars, stopped>>

\* ------------------------------------------------------------ the machine
Fresh ==
    /\ mode = "live"
    /\ ethUsdPrice = 0
    /\ simulation = InitialSimulation
    /\ storeProviders = <<>>
    /\ isLoading = FALSE
    /\ error = "null"
    /\ isInitialized = FALSE
    /\ providers = <<>>
    /\ timers = 0
    /\ initPc = [k \in Calls |-> [at |-> "idle", provider |-> NoProvider]]
    /\ handlers = EmptyBag
    /\ priceReqs = EmptyBag
    /\ fetch = IdleFetch
    /\ listeners = [p \in Pids |-> 0]
    /\ opened = {}
    /\ destroyed = {}
    /\ head = [c \in ChainIds |-> 0]
    /\ inits = 0
    /\ blocks = 0
    /\ priceTicks = 0
    /\ fetches = 0
    /\ attempt = [k \in Calls |-> [c \in ChainIds |-> "none"]]
    /\ stopped = FALSE
    /\ lastOp = <<"init">>

\* the store and the service as constructed, at the start of the run
Start ==
    /\ Fresh
    /\ now = 0
    /\ chains = InitialChains
    /\ appended = [c \in ChainIds |-> <<>>]

\* the websocket service: its lifecycle, the block listeners and the price interval
LiveInit == Start /\ variant = "live" /\ rng = 0

LiveNext ==
    \/ LiveInitialize
    \/ ConnectResolve
    \/ InitPriceResolve
    \/ PriceTick
    \/ PriceResolve
    \/ BlockMined
    \/ HandlerGetBlock
    \/ HandlerGetFeeData
    \/ Disconnect

LiveSpec == LiveInit /\ [][LiveNext]_vars

\* the websocket service driven by its two public methods only: initialize()
\* with the connections it awaits, and disconnect(); no block arrives and no
\* price interval fires
LifecycleNext ==
    \/ LiveInitialize
    \/ ConnectResolve
    \/ InitPriceResolve
    \/ Disconnect

LifecycleSpec == LiveInit /\ [][LifecycleNext]_vars

\* initialize() called while an earlier initialize() may still be awaiting its
\* connections; nothing else runs
OverlapNext ==
    \/ LiveInitializeAgain
    \/ ConnectResolve
    \/ InitPriceResolve

OverlapSpec == LiveInit /\ [][OverlapNext]_vars

\* the websocket service started once over endpoints of which any may never
\* answer.  Every promise that is settled runs its continuation (the event
\* loop), every endpoint that is not stalled answers, and initialize() is
\* called (the mount effect of useBlockchainData).
StallNext ==
    \/ LiveInitialize
    \/ ConnectStall
    \/ ConnectResolve
    \/ InitPriceResolve
    \/ BlockMined
    \/ HandlerGetBlock
    \/ HandlerGetFeeData

StallSpec ==
    /\ LiveInit
    /\ [][StallNext]_vars
    /\ WF_vars(LiveInitialize /\ ~isInitialized)
    /\ WF_vars(ConnectResolve)
    /\ WF_vars(InitPriceResolve)
    /\ WF_vars(HandlerGetBlock)
    /\ WF_vars(HandlerGetFeeData)

\* ------------------------------------------------- the store called directly
\* what a caller of the store's operations may pass
CallerChainIds == {"ethereum", "polygon", "optimism"}
PointChainIds == {"ethereum", "optimism"}
PartialData ==
    { [baseFee |-> 10 * FeeScale],
      [baseFee |-> 10 * FeeScale, priorityFee |-> 2 * FeeScale,
       gasPrice |-> 12 * FeeScale, blockNumber |-> 1] }
CallerPoints ==
    { [timestamp |-> now, baseFee |-> 10 * FeeScale, priorityFee |-> 2 * FeeScale,
       totalFee |-> 12 * FeeScale, usdPrice |-> ethUsdPrice] }

\* store.updateChainData(chain, data)
StoreUpdateChainData ==
    \E chain \in CallerChainIds : \E data \in PartialData :
        /\ chains' = updateChainData(chains, chain, data, now)
        /\ lastOp' = <<"updateChainData", chain, data>>
        /\ UNCHANGED <<variant, now, rng, mode, ethUsdPrice, simulation, storeProviders,
                       isLoading, error, svcVars, netVars, envVars, appended, stopped>>

\* store.addGasPoint(chain, point)
StoreAddGasPoint ==
    \E chain \in PointChainIds : \E point \in CallerPoints :
        /\ Len(appended["ethereum"]) + Len(appended["polygon"])
               + Len(appended["arbitrum"]) < MaxStorePoints
        /\ chains' = addGasPoint(chains, chain, point)
        /\ IF addGasPointThrows(chains, chain)
           THEN /\ lastOp' = <<"addGasPoint", chain, "throw">>
                /\ UNCHANGED appended
           ELSE /\ lastOp' = <<"addGasPoint", chain, "ok">>
                /\ appended' = [appended EXCEPT ![chain] = Append(@, point)]
        /\ UNCHANGED <<variant, now, rng, mode, ethUsdPrice, simulation, storeProviders,
                       isLoading, error, svcVars, netVars, envVars, stopped>>

\* the object each scalar setter passes to set()
setMode(m)            == [mode |-> m]
setEthUsdPrice(price) == [ethUsdPrice |-> price]
setLoading(loading)   == [isLoading |-> loading]
\* setError that also ends the loading state
setErrorAndLoading(e) == [error |-> e, isLoading |-> FALSE]
setError(e)           == [error |-> e]

\* zustand's set(partial): the partial is merged into the state, field by field
StoreState ==
    [mode |-> mode, chains |-> chains, ethUsdPrice |-> ethUsdPrice,
     simulation |-> simulation, providers |-> storeProviders,
     isLoading |-> isLoading, error |-> error]
StoreApply(partial) ==
    LET s == Spread(StoreState, partial)
    IN  /\ mode' = s.mode
        /\ chains' = s.chains
        /\ ethUsdPrice' = s.ethUsdPrice
        /\ simulation' = s.simulation
        /\ storeProviders' = s.providers
        /\ isLoading' = s.isLoading
        /\ error' = s.error

\* store.setEthUsdPrice(price)
StoreSetEthUsdPrice ==
    \E price \in {FallbackPrice} :
        /\ StoreApply(setEthUsdPrice(price))
        /\ lastOp' = <<"setEthUsdPrice", price>>
        /\ UNCHANGED <<variant, now, rng, svcVars, netVars, envVars, appended, stopped>>

\* store.setMode(mode), the store's operation alone
StoreSetMode ==
    \E m \in {"live", "simulation"} :
        /\ StoreApply(setMode(m))
        /\ lastOp' = <<"store.setMode", m>>
        /\ UNCHANGED <<variant, now, rng, svcVars, netVars, envVars, appended, stopped>>

\* store.setLoading(loading)
StoreSetLoading ==
    \E loading \in BOOLEAN :
        /\ StoreApply(setLoading(loading))
        /\ lastOp' = <<"setLoading", loading>>
        /\ UNCHANGED <<variant, now, rng, svcVars, netVars, envVars, appended, stopped>>

\* store.setError(error)
ErrorTexts == {"null", "Failed to initialize"}
StoreSetError ==
    \E e \in ErrorTexts :
        /\ StoreApply(setError(e))
        /\ lastOp' = <<"setError", e>>
        /\ UNCHANGED <<variant, now, rng, svcVars, netVars, envVars, appended, stopped>>

\* store.calculateTransactionCost(chain, gasLimit, amount), as SimulationPanel
\* calls it for each chain
CostGasLimits == {21000}
CostAmounts   == {0, MicroPerUnit \div 2}
CalculateTransactionCost ==
    \E chain \in {"ethereum", "polygon"} :
    \E gasLimit \in CostGasLimits : \E amount \in CostAmounts :
        /\ chains' = storeAfterCost(chains, chain)
        /\ lastOp' = <<"calculateTransactionCost", chain, gasLimit, amount,
                       calculateTransactionCost(chains, ethUsdPrice, chain, gasLimit, amount)>>
        /\ UNCHANGED <<variant, now, rng, mode, ethUsdPrice, simulation, storeProviders,
                       isLoading, error, svcVars, netVars, envVars, appended, stopped>>

\* time passes between two calls
StoreElapse ==
    /\ now < MaxStoreClock
    /\ now' = now + 1
    /\ lastOp' = <<"elapse">>
    /\ UNCHANGED <<variant, rng, storeVars, svcVars, netVars, envVars, appended, stopped>>

\* ------------------------------------------------- the simulation panel
\* what the user may type into the amount field (type="text")
AmountInputs ==
    { <<>>, <<".">>, <<"1">>, <<"0", ".", "5">>, <<"1", ".">>, <<"a", "b", "c">>,
      <<"1", "e", "5">>, <<"-", "1">>, <<"1", ".", "2", ".", "3">>, <<"1", " ">> }

\* onChange of the amount field
HandleAmountChange ==
    \E value \in AmountInputs :
        /\ simulation' = handleAmountChange(simulation, value)
        /\ lastOp' = <<"handleAmountChange", value>>
        /\ UNCHANGED <<variant, now, rng, mode, chains, ethUsdPrice, storeProviders,
                       isLoading, error, svcVars, netVars, envVars, appended, stopped>>

\* what the gas limit field (type="number") may hand to its onChange
GasLimitInputs ==
    { <<>>, <<"0">>, <<"5">>, <<"2", "0", "9", "9", "9">>, <<"2", "1", "0", "0", "0">>,
      <<"5", "0", "0", "0", "0">>, <<"-", "5">>, <<"1", "e", "3">>,
      <<"2", "1", "0", "0", "0", ".", "7">> }

\* onChange of the gas limit field
HandleGasLimitChange ==
    \E value \in GasLimitInputs :
        /\ simulation' = handleGasLimitChange(simulation, value)
        /\ lastOp' = <<"handleGasLimitChange", value>>
        /\ UNCHANGED <<variant, now, rng, mode, chains, ethUsdPrice, storeProviders,
                       isLoading, error, svcVars, netVars, envVars, appended, stopped>>

\* onValueChange of the chain selector
SelectChain ==
    \E value \in ChainIds :
        /\ simulation' = setSimulation(simulation, [chain |-> value])
        /\ lastOp' = <<"setSimulation", value>>
        /\ UNCHANGED <<variant, now, rng, mode, chains, ethUsdPrice, storeProviders,
                       isLoading, error, svcVars, netVars, envVars, appended, stopped>>

\* the store alone, no service constructed
StoreInit == Start /\ variant = "none" /\ rng = 0

StoreNext ==
    \/ StoreUpdateChainData
    \/ StoreAddGasPoint
    \/ StoreSetEthUsdPrice
    \/ CalculateTransactionCost
    \/ StoreElapse

StoreSpec == StoreInit /\ [][StoreNext]_vars

\* the scalar setters, over a store that holds points and a chosen chain
SettersNext ==
    \/ StoreAddGasPoint
    \/ SelectChain
    \/ StoreSetEthUsdPrice
    \/ StoreSetMode
    \/ StoreSetLoading
    \/ StoreSetError

SettersSpec == StoreInit /\ [][SettersNext]_vars

\* the panel rendered over a store whose chains carry fees: none yet, the fees
\* of a block with base fee 10, or the split of a gas price of 30
PanelFees ==
    { [baseFee |-> 0, priorityFee |-> 0, gasPrice |-> 0],
      [baseFee |-> 10 * FeeScale, priorityFee |-> DefaultPriorityFee,
       gasPrice |-> 10 * FeeScale + DefaultPriorityFee],
      [baseFee |-> 24 * FeeScale, priorityFee |-> 6 * FeeScale,
       gasPrice |-> 30 * FeeScale] }

RecommendInit ==
    /\ Fresh
    /\ variant = "none"
    /\ rng = 0
    /\ now = 0
    /\ appended = [c \in ChainIds |-> <<>>]
    /\ \E fees \in [ChainIds -> PanelFees] :
           chains = [c \in ChainIds |-> Spread(InitialChains[c], fees[c])]

\* the panel renders: const cheapest = getCheapestChain()
GetCheapestChain ==
    /\ lastOp' = <<"getCheapestChain",
                   getCheapestChain(getTransactionCosts(simulation, chains, ethUsdPrice))>>
    /\ UNCHANGED <<variant, now, rng, storeVars, svcVars, netVars, envVars, appended,
                   stopped>>

RecommendNext ==
    \/ HandleGasLimitChange
    \/ HandleAmountChange
    \/ StoreSetEthUsdPrice
    \/ GetCheapestChain

RecommendSpec == RecommendInit /\ [][RecommendNext]_vars

\* the pool price conversion on its own: slot0 returned the sqrtPriceX96 of a
\* pool at a target price; the price is in cents, as ethUsdPrice is
TargetPrices ==
    {100, 10000, 10000000} \cup PoolPrices \cup {DemoEthPrice}
        \cup {PriceFloor + 12500 * i : i \in 0 .. 24}

ConvertInit ==
    /\ variant = "none"
    /\ rng = 0
    /\ now = 0
    /\ chains = InitialChains
    /\ appended = [c \in ChainIds |-> <<>>]
    /\ mode = "live"
    /\ ethUsdPrice = 0
    /\ simulation = InitialSimulation
    /\ storeProviders = <<>>
    /\ isLoading = FALSE
    /\ error = "null"
    /\ isInitialized = FALSE
    /\ providers = <<>>
    /\ timers = 0
    /\ initPc = [k \in Calls |-> [at |-> "idle", provider |-> NoProvider]]
    /\ handlers = EmptyBag
    /\ priceReqs = EmptyBag
    /\ fetch = IdleFetch
    /\ listeners = [p \in Pids |-> 0]
    /\ opened = {}
    /\ destroyed = {}
    /\ head = [c \in ChainIds |-> 0]
    /\ inits = 0
    /\ blocks = 0
    /\ priceTicks = 0
    /\ fetches = 0
    /\ attempt = [k \in Calls |-> [c \in ChainIds |-> "none"]]
    /\ stopped = FALSE
    /\ \E cents \in TargetPrices :
           lastOp = <<"slot0", cents, SqrtPriceX96For(cents)>>

\* const price = this.calculatePriceFromSqrtPriceX96(sqrtPriceX96)
CalculatePrice ==
    \E r \in RoundingSteps :
        /\ lastOp[1] \in {"slot0", "calculatePriceFromSqrtPriceX96"}
        /\ lastOp' = <<"calculatePriceFromSqrtPriceX96", lastOp[2], lastOp[3],
                       Rounded(calculatePriceFromSqrtPriceX96(lastOp[3]), r)>>
        /\ UNCHANGED <<variant, now, rng, storeVars, svcVars, netVars, envVars, appended,
                       stopped>>

ConvertSpec == ConvertInit /\ [][CalculatePrice]_vars

\* the panel's input fields over the initial store
PanelNext ==
    \/ HandleAmountChange
    \/ HandleGasLimitChange
    \/ SelectChain

PanelSpec == StoreInit /\ [][PanelNext]_vars

\* ------------------------------------------------- getChartData on its own
\* the instants (ms) at which the chart is drawn and at which points were
\* captured, the fees of a point (base, priority), the bucket widths asked for
ChartNows      == {900000, ChartWindow, ChartWindow + 600000}
ChartTimes     == {0, 400000, 800000, 900000, ChartWindow}
ChartFees      == {<<13, 2>>, <<18, 2>>, <<23, 2>>}
ChartIntervals == {DefaultInterval, 7000000}

ChartPoints ==
    {[timestamp |-> ts, baseFee |-> f[1] * FeeScale, priorityFee |-> f[2] * FeeScale,
      totalFee |-> (f[1] + f[2]) * FeeScale, usdPrice |-> 0] :
        ts \in ChartTimes, f \in ChartFees}

ChartHistories == UNION {[1 .. n -> ChartPoints] : n \in 0 .. MaxChartPoints}

\* a store whose ethereum history holds points captured up to now, in any order
ChartInit ==
    /\ Fresh
    /\ variant = "none"
    /\ rng = 0
    /\ now \in ChartNows
    /\ \E h \in ChartHistories :
           /\ \A i \in 1 .. Len(h) : h[i].timestamp <= now
           /\ chains = [InitialChains EXCEPT !["ethereum"].history = h]
    /\ appended = [c \in ChainIds |-> chains[c].history]

\* store.getChartData(chain, interval), as ChartWidget calls it
GetChartData ==
    \E chain \in {"ethereum", "polygon"} : \E interval \in ChartIntervals :
        /\ lastOp' = <<"getChartData", chain, interval,
                       getChartData(chains, chain, interval, now)>>
        /\ UNCHANGED <<variant, now, rng, storeVars, svcVars, netVars, envVars,
                       appended, stopped>>

ChartNext == GetChartData

ChartSpec == ChartInit /\ [][ChartNext]_vars

\* ------------------------------------- the mode buttons of a running service
\* the number of points each chain has ingested when the buttons are used
PriorPoints == {0, HistoryCap - 1, HistoryCap}

\* the point that handleNewBlock appended for block i of an EIP-1559 chain
PriorPoint(i, price) ==
    [timestamp |-> i, baseFee |-> 20 * FeeScale, priorityFee |-> DefaultPriorityFee,
     totalFee |-> 20 * FeeScale + DefaultPriorityFee, usdPrice |-> price]

\* the websocket service after initialize() connected the three chains, read
\* the price and ingested n blocks of every chain, one per unit of time
FetchInit ==
    /\ variant = "live"
    /\ rng = 0
    /\ mode = "live"
    /\ ethUsdPrice \in PoolPrices
    /\ \E n \in PriorPoints :
           /\ now = n
           /\ head = [c \in ChainIds |-> n]
           /\ chains = [c \in ChainIds |->
                  Spread(InitialChains[c],
                      IF n = 0 THEN [isConnected |-> TRUE]
                      ELSE [baseFee |-> 20 * FeeScale, priorityFee |-> DefaultPriorityFee,
                            gasPrice |-> 20 * FeeScale + DefaultPriorityFee,
                            blockNumber |-> n, isConnected |-> TRUE, lastUpdate |-> n,
                            history |-> SliceLast([i \in 1 .. n |-> PriorPoint(i, ethUsdPrice)],
                                                  HistoryCap)])]
           /\ appended = [c \in ChainIds |-> [i \in 1 .. n |-> PriorPoint(i, ethUsdPrice)]]
    /\ simulation = InitialSimulation
    /\ storeProviders = [c \in ChainIds |-> <<1, c>>]
    /\ isLoading = FALSE
    /\ error = "null"
    /\ isInitialized = TRUE
    /\ providers = [i \in 1 .. Len(ChainOrder) |->
                        [key |-> ChainOrder[i], value |-> <<1, ChainOrder[i]>>]]
    /\ timers = 1
    /\ initPc = [k \in Calls |-> [at |-> IF k = 1 THEN "done" ELSE "idle",
                                  provider |-> NoProvider]]
    /\ handlers = EmptyBag
    /\ priceReqs = EmptyBag
    /\ fetch = IdleFetch
    /\ listeners = [p \in Pids |-> IF p[1] = 1 THEN 1 ELSE 0]
    /\ opened = {p \in Pids : p[1] = 1}
    /\ destroyed = {}
    /\ inits = 1
    /\ blocks = 0
    /\ priceTicks = 0
    /\ fetches = 0
    /\ attempt = [k \in Calls |-> [c \in ChainIds |-> IF k = 1 THEN "ok" ELSE "none"]]
    /\ stopped = FALSE
    /\ lastOp = <<"init">>

\* the Live / Simulation buttons and the manual fetch they start
FetchNext ==
    \/ SetMode
    \/ FetchGetBlockNumber
    \/ HandlerGetBlock
    \/ HandlerGetFeeData

FetchSpec == FetchInit /\ [][FetchNext]_vars

\* a connected service ingesting: blocks arrive while manual fetches run
IngestNext ==
    \/ SetMode
    \/ FetchGetBlockNumber
    \/ BlockMined
    \/ HandlerGetBlock
    \/ HandlerGetFeeData

IngestSpec == FetchInit /\ [][IngestNext]_vars

\* the demo service: its lifecycle, the simulation interval and the mode buttons
SimInit == Start /\ variant = "sim" /\ rng \in 0 .. RandomLevels - 1

SimNext ==
    \/ SimInitialize
    \/ SimTick
    \/ Disconnect
    \/ SetMode

SimSpec == SimInit /\ [][SimNext]_vars

\* the demo service after a long run: the histories are full and the price has
\* walked down to the floor, to just above it, or is still at the seed
WalkPrices == {PriceFloor, PriceFloor + 300, DemoEthPrice}

\* the point updateSimulatedData appended at tick i when Math.random() gave 0.5
WalkPoint(c, i, price) ==
    [timestamp |-> i, baseFee |-> baseGasPrices[c].base,
     priorityFee |-> baseGasPrices[c].priority,
     totalFee |-> baseGasPrices[c].base + baseGasPrices[c].priority,
     usdPrice |-> price]

LongRunInit ==
    /\ variant = "sim"
    /\ rng \in 0 .. RandomLevels - 1
    /\ mode = "live"
    /\ ethUsdPrice \in WalkPrices
    /\ now = HistoryCap
    /\ chains = [c \in ChainIds |->
           Spread(InitialChains[c],
               [baseFee |-> baseGasPrices[c].base,
                priorityFee |-> baseGasPrices[c].priority,
                gasPrice |-> baseGasPrices[c].base + baseGasPrices[c].priority,
                blockNumber |-> HistoryCap, isConnected |-> TRUE,
                lastUpdate |-> HistoryCap,
                history |-> [i \in 1 .. HistoryCap |-> WalkPoint(c, i, ethUsdPrice)]])]
    /\ appended = [c \in ChainIds |->
           [i \in 1 .. HistoryCap |-> WalkPoint(c, i, ethUsdPrice)]]
    /\ simulation = InitialSimulation
    /\ storeProviders = <<>>
    /\ isLoading = FALSE
    /\ error = "null"
    /\ isInitialized = TRUE
    /\ providers = <<>>
    /\ timers = 1
    /\ initPc = [k \in Calls |-> [at |-> "idle", provider |-> NoProvider]]
    /\ handlers = EmptyBag
    /\ priceReqs = EmptyBag
    /\ fetch = IdleFetch
    /\ listeners = [p \in Pids |-> 0]
    /\ opened = {}
    /\ destroyed = {}
    /\ head = [c \in ChainIds |-> 0]
    /\ inits = 1
    /\ blocks = 0
    /\ priceTicks = 0
    /\ fetches = 0
    /\ attempt = [k \in Calls |-> [c \in ChainIds |-> "none"]]
    /\ stopped = FALSE
    /\ lastOp = <<"init">>

\* the demo service from its construction on, or met after a long run
WalkSpec == (SimInit \/ LongRunInit) /\ [][SimNext]_vars

\* the two producers of points: the block handler of the connected websocket
\* service, and the demo service from its construction on
ProducersInit == FetchInit \/ SimInit

ProducersNext ==
    \/ BlockMined
    \/ HandlerGetBlock
    \/ HandlerGetFeeData
    \/ SimInitialize
    \/ SimTick

ProducersSpec == ProducersInit /\ [][ProducersNext]_vars

\* the whole application, with either service
Init == LiveInit \/ SimInit

Next ==
    \/ LiveNext
    \/ FetchGetBlockNumber
    \/ SimNext

Spec == Init /\ [][Next]_vars

\* ------------------------------------------------------------------ claims
Min(a, b) == IF a <= b THEN a ELSE b

\* the last min(n, Len(log)) entries of log, in the order of log
LastPoints(log, n) ==
    LET m == Min(n, Len(log)) IN [i \in 1 .. m |-> log[Len(log) - m + i]]

\* C1: after any sequence of addGasPoint calls, a chain's history is the last
\* min(N, 100) appended points, in arrival order and unaltered.
HistoryIsLastAppended ==
    \A c \in ChainIds : chains[c].history = LastPoints(appended[c], HistoryCap)

\* C1 witness: more than 100 points were appended to ethereum, so the oldest
\* ones were evicted.
EvictionHappened ==
    /\ Len(appended["ethereum"]) > HistoryCap
    /\ chains["ethereum"].history[1] # appended["ethereum"][1]

\* C2: every chain's history has at most 100 entries in every reachable state.
HistoryBounded == \A c \in ChainIds : Len(chains[c].history) <= HistoryCap

\* C2 witness: all three histories are full and one more point arrived.
HistoriesFull ==
    /\ \A c \in ChainIds : Len(chains[c].history) = HistoryCap
    /\ \E c \in ChainIds : Len(appended[c]) = HistoryCap + 1

\* C3 (as claimed): from the return of disconnect() until initialize() is called
\* again, no step appends a point, changes a chain snapshot or the spot price.
NothingIngestedAfterDisconnect ==
    [][(stopped /\ stopped') => UNCHANGED <<chains, ethUsdPrice>>]_vars

\* C4 (as claimed): a handleNewBlock whose provider was destroyed by disconnect()
\* while it was suspended leaves the store's chains untouched when it resumes.
CutHandlerLeavesStore ==
    [][(lastOp'[1] = "handleNewBlock" /\ lastOp'[2]) => chains' = chains]_vars

\* C5 (as claimed): after disconnect() no interval remains scheduled, and at
\* most one interval is scheduled at any time.
TimerCancelled == (stopped => timers = 0) /\ timers <= 1

\* C6 (as claimed): when disconnect() has returned, isConnected is false for
\* every chain in the store.
DisconnectedAllFalse ==
    lastOp[1] = "disconnect" => \A c \in ChainIds : ~chains[c].isConnected

\* C7: initialize() called while isInitialized is true changes nothing: no store
\* field, no listener, no connection, no interval.
InitializeIdempotent ==
    [][lastOp' = <<"initialize", TRUE>> => UNCHANGED progVars]_vars

\* C7 witness: initialize() was called on a service that had connected chains,
\* listeners and an interval, and returned at the guard.
InitializeCalledTwice ==
    /\ lastOp = <<"initialize", TRUE>>
    /\ isInitialized
    /\ timers = 1
    /\ \E p \in Pids : listeners[p] > 0

\* C8 (as claimed): when disconnect() has returned no listener is registered,
\* every opened connection is released, neither the service's Map nor the
\* store's providers record holds a handle, and isInitialized is false.
DisconnectReleasesAll ==
    lastOp[1] = "disconnect" =>
        /\ \A p \in Pids : listeners[p] = 0
        /\ opened \subseteq destroyed
        /\ providers = <<>>
        /\ \A c \in DOMAIN storeProviders : storeProviders[c] = NoProvider
        /\ ~isInitialized

\* C9: disconnect() called when initialize() was never called, or right after a
\* disconnect(), changes nothing in the service, the store or the connections.
DisconnectIdempotent ==
    [][lastOp' = <<"disconnect", TRUE>> => UNCHANGED progVars]_vars

\* C9 witness: disconnect() was called a second time in a row after the service
\* had been initialized with at least one connection.
DisconnectCalledTwice ==
    /\ lastOp = <<"disconnect", TRUE>>
    /\ inits > 0
    /\ destroyed # {}

\* C10 (as claimed): when initialize() call k completes, a chain is connected in
\* the store exactly when k's own attempt for it succeeded, and every chain that
\* connected has a block listener.
ConnectionsIsolated ==
    lastOp[1] = "initialized" =>
        \A c \in ChainIds :
            /\ chains[c].isConnected = (attempt[lastOp[2]][c] = "ok")
            /\ attempt[lastOp[2]][c] = "ok" => listeners[<<lastOp[2], c>>] > 0

\* C11 (as claimed): if the connection attempt of one chain never completes,
\* every other chain whose endpoint does not refuse is still eventually
\* connected with a block handler registered, so that its blocks are ingested.
StalledChainDoesNotBlock ==
    \A s \in ChainIds : \A c \in ChainIds \ {s} :
        (<>(attempt[1][s] = "stalled") /\ [](attempt[1][c] # "failed"))
            => <>(chains[c].isConnected /\ listeners[<<1, c>>] > 0)

\* C12 (as claimed): when initialize() call k completes, the store's error is
\* non-null if none of k's connection attempts succeeded, and null if at least
\* one did.
OnlyTotalFailureEscalated ==
    lastOp[1] = "initialized" =>
        ((error # "null") <=> (\A c \in ChainIds : attempt[lastOp[2]][c] = "failed"))

\* a step that ends a price refresh without a price: the pool query threw, or
\* there was no Ethereum provider to ask
RefreshWithoutPrice ==
    /\ lastOp'[1] \in {"initialized", "priceTick", "price"}
    /\ lastOp'[Len(lastOp')] \in {"throw", "unavailable"}

\* C13 (as claimed): a price refresh that obtains no price leaves ethUsdPrice at
\* its last-known value if that is not 0, and sets it to 2000 if it is 0.
PriceKeptOrDefault ==
    [][RefreshWithoutPrice =>
          ethUsdPrice' = IF ethUsdPrice = 0 THEN FallbackPrice ELSE ethUsdPrice]_vars

\* C14 (as claimed): in every state each chain's gasPrice is the sum of its
\* baseFee and priorityFee, whatever fields updateChainData was called with.
GasPriceIsSum ==
    \A c \in ChainIds : chains[c].gasPrice = chains[c].baseFee + chains[c].priorityFee

\* the starts of the buckets of a chart drawn at t: (t - 24h) + k * interval
\* for k >= 0, up to t
BucketStarts(t, interval) ==
    {t - ChartWindow + k * interval : k \in 0 .. (ChartWindow \div interval)}

\* the positions in chain c's history of the raw points of the bucket at b
RawIn(c, b, interval) ==
    {i \in 1 .. Len(chains[c].history) :
        /\ chains[c].history[i].timestamp >= b
        /\ chains[c].history[i].timestamp < b + interval}

FeeOf(point, field) ==
    IF field = "sum" THEN point.baseFee + point.priorityFee ELSE point[field]

RECURSIVE SumOver(_, _, _)
SumOver(h, I, field) ==
    IF I = {} THEN 0
    ELSE LET i == CHOOSE j \in I : TRUE
         IN  FeeOf(h[i], field) + SumOver(h, I \ {i}, field)

\* arithmetic mean, cut to the fee unit
MeanOver(h, I, field) == SumOver(h, I, field) \div Cardinality(I)

\* C15: getChartData returns exactly one point per non-empty bucket and none for
\* an empty one; a returned point's baseFee, priorityFee and totalFee are the
\* means of those fields over the raw points with timestamp in
\* [bucketStart, bucketStart + interval), and its totalFee is the mean of
\* baseFee + priorityFee over them.
BucketsAreMeans ==
    lastOp[1] = "getChartData" =>
        LET c   == lastOp[2]
            iv  == lastOp[3]
            res == lastOp[4]
            h   == chains[c].history
        IN  /\ \A b \in BucketStarts(now, iv) :
                   Cardinality({j \in 1 .. Len(res) : res[j].timestamp = b})
                       = IF RawIn(c, b, iv) # {} THEN 1 ELSE 0
            /\ \A j \in 1 .. Len(res) :
                   LET I == RawIn(c, res[j].timestamp, iv)
                   IN  /\ res[j].timestamp \in BucketStarts(now, iv)
                       /\ I # {}
                       /\ res[j].baseFee = MeanOver(h, I, "baseFee")
                       /\ res[j].priorityFee = MeanOver(h, I, "priorityFee")
                       /\ res[j].totalFee = MeanOver(h, I, "totalFee")
                       /\ res[j].totalFee = MeanOver(h, I, "sum")

\* C15 witness: three points with totalFee 15, 20, 25 at 0, 400000, 800000 ms,
\* the chart drawn at 900000 with 900000 ms buckets: one point, totalFee 20.
ScenarioA ==
    /\ lastOp[1] = "getChartData"
    /\ lastOp[2] = "ethereum"
    /\ lastOp[3] = DefaultInterval
    /\ now = 900000
    /\ [i \in 1 .. Len(chains["ethereum"].history) |->
           <<chains["ethereum"].history[i].timestamp,
             chains["ethereum"].history[i].totalFee>>]
         = <<<<0, 15 * FeeScale>>, <<400000, 20 * FeeScale>>, <<800000, 25 * FeeScale>>>>
    /\ Len(lastOp[4]) = 1
    /\ lastOp[4][1].timestamp = 0
    /\ lastOp[4][1].totalFee = 20 * FeeScale

\* C16 (as claimed): every returned point's timestamp is (now - 24h) + k * interval
\* for an integer k >= 0, its bucket lies within the trailing 24-hour window
\* ending at now, and the points are in strictly increasing timestamp order.
ChartBucketsInsideWindow ==
    lastOp[1] = "getChartData" =>
        LET iv == lastOp[3]
            res == lastOp[4]
        IN  /\ \A j \in 1 .. Len(res) :
                   /\ res[j].timestamp \in BucketStarts(now, iv)
                   /\ res[j].timestamp >= now - ChartWindow
                   /\ res[j].timestamp + iv <= now
            /\ \A j \in 1 .. Len(res) - 1 : res[j].timestamp < res[j + 1].timestamp

\* C16 (amended): every returned point's timestamp is (now - 24h) + k * interval
\* for an integer k >= 0 and lies in [now - 24h, now], so its bucket starts
\* within the window and may reach up to one interval past now; the points are
\* in strictly increasing timestamp order.
ChartBucketsStartInsideWindow ==
    lastOp[1] = "getChartData" =>
        LET iv == lastOp[3]
            res == lastOp[4]
        IN  /\ \A j \in 1 .. Len(res) :
                   /\ \E k \in 0 .. (ChartWindow \div iv) :
                          res[j].timestamp = (now - ChartWindow) + k * iv
                   /\ res[j].timestamp >= now - ChartWindow
                   /\ res[j].timestamp <= now
            /\ \A j \in 1 .. Len(res) - 1 : res[j].timestamp < res[j + 1].timestamp

\* C16 witness: a chart of several buckets whose last bucket starts at now and
\* holds the point captured at now.
ChartEndsAtNow ==
    /\ lastOp[1] = "getChartData"
    /\ lastOp[3] = DefaultInterval
    /\ Len(lastOp[4]) >= 2
    /\ lastOp[4][Len(lastOp[4])].timestamp = now

\* C17 (as claimed): calculateTransactionCost(chain, gasLimit, amount) returns
\* gasCostNative = (the chain's current gasPrice * gasLimit) / 10^9,
\* gasCostFiat = gasCostNative * ethUsdPrice, totalCostNative = gasCostNative +
\* amount and totalCostFiat = totalCostNative * ethUsdPrice.
CostFromGasPrice ==
    lastOp[1] = "calculateTransactionCost" =>
        LET chain    == lastOp[2]
            gasLimit == lastOp[3]
            amount   == lastOp[4]
            cost     == lastOp[5]
            native   == MulDiv(chains[chain].gasPrice, gasLimit, FeeScale) \div 1000
        IN  /\ cost.gasCostETH = native
            /\ cost.gasCostUSD = MulDiv(native, ethUsdPrice, 100)
            /\ cost.totalCostETH = native + amount
            /\ cost.totalCostUSD = MulDiv(native + amount, ethUsdPrice, 100)

\* C18: calculateTransactionCost leaves every field of the store unchanged, and
\* two calls in a row with the same arguments return the same result.
CostIsPure ==
    [][lastOp'[1] = "calculateTransactionCost" =>
          /\ UNCHANGED storeVars
          /\ (lastOp[1] = "calculateTransactionCost"
                  /\ <<lastOp[2], lastOp[3], lastOp[4]>> = <<lastOp'[2], lastOp'[3], lastOp'[4]>>)
                 => lastOp'[5] = lastOp[5]]_vars

\* C18 witness: a cost was computed from non-zero fees, a non-zero price and a
\* non-zero amount.
CostComputed ==
    /\ lastOp[1] = "calculateTransactionCost"
    /\ lastOp[4] > 0
    /\ lastOp[5].gasCostUSD > 0
    /\ lastOp[5].totalCostUSD > lastOp[5].gasCostUSD

\* the position of point x in sequence b
PositionIn(b, x) == CHOOSE j \in 1 .. Len(b) : b[j] = x

\* every point of a is in b, in the same relative order
KeptInOrder(a, b) ==
    /\ \A i \in 1 .. Len(a) : \E j \in 1 .. Len(b) : b[j] = a[i]
    /\ \A i \in 1 .. Len(a) - 1 : PositionIn(b, a[i]) < PositionIn(b, a[i + 1])

\* C19 (as claimed): no step of switching the mode (setMode, the manual fetch it
\* starts and the handlers that fetch runs) removes or reorders a point of any
\* chain's history.
ModeSwitchKeepsHistory ==
    [][\A c \in ChainIds : KeptInOrder(chains[c].history, chains'[c].history)]_vars

\* C19 (amended): a step of switching the mode either leaves a chain's history
\* as it is or appends one point to it; only a history that already holds 100
\* points loses a point then, its oldest, and the others keep their order.
ModeSwitchOnlyEvicts ==
    [][\A c \in ChainIds :
          LET h  == chains[c].history
              h2 == chains'[c].history
          IN  \/ h2 = h
              \/ /\ Len(h) < HistoryCap
                 /\ Len(h2) = Len(h) + 1
                 /\ h2 = Append(h, h2[Len(h2)])
              \/ /\ Len(h) = HistoryCap
                 /\ Len(h2) = HistoryCap
                 /\ h2 = Append(Tail(h), h2[Len(h2)])]_vars

\* C19 witness: the mode went to simulation and back to live, and the manual
\* fetch in between appended to a history that was full.
SwitchedAndBack ==
    /\ mode = "live"
    /\ fetches = 1
    /\ fetch.pc = "idle"
    /\ lastOp = <<"setMode">>
    /\ \E c \in ChainIds :
           /\ Len(appended[c]) = HistoryCap + 1
           /\ chains[c].history = SubSeq(appended[c], 2, HistoryCap + 1)

\* C20 (as claimed): chains always has exactly the keys ethereum, polygon and
\* arbitrum, and updateChainData or addGasPoint called with another identifier
\* adds no record and changes none.
ChainKeysFixed ==
    [][/\ DOMAIN chains' = ChainIds
       /\ (lastOp'[1] \in {"updateChainData", "addGasPoint"} /\ lastOp'[2] \notin ChainIds)
              => chains' = chains]_vars

\* C21: a call updateChainData(chain, partial) sets exactly the fields of
\* partial in that chain's record and stamps lastUpdate with the time of the
\* call; the record's other fields (history among them), every other chain's
\* record, ethUsdPrice, mode and simulation are as before.
UpdateMergesOnlyGiven ==
    [][lastOp'[1] = "updateChainData" =>
          LET chain == lastOp'[2]
              data  == lastOp'[3]
              old   == IF chain \in DOMAIN chains THEN chains[chain] ELSE <<>>
              new   == chains'[chain]
          IN  /\ DOMAIN new = DOMAIN old \cup DOMAIN data \cup {"lastUpdate"}
              /\ \A f \in DOMAIN data \ {"lastUpdate"} : new[f] = data[f]
              /\ new.lastUpdate = now
              /\ \A f \in DOMAIN old \ (DOMAIN data \cup {"lastUpdate"}) : new[f] = old[f]
              /\ \A c \in DOMAIN chains \ {chain} :
                     c \in DOMAIN chains' /\ chains'[c] = chains[c]
              /\ DOMAIN chains' = DOMAIN chains \cup {chain}
              /\ UNCHANGED <<ethUsdPrice, mode, simulation>>]_vars

\* a partial update of one fee field, at a later time, of a record that holds
\* history and fee fields the update does not name
PartialUpdateOfFilledRecord ==
    /\ lastOp[1] = "updateChainData"
    /\ lastOp[2] \in ChainIds
    /\ DOMAIN lastOp[3] = {"baseFee"}
    /\ chains[lastOp[2]].history # <<>>
    /\ chains[lastOp[2]].blockNumber = 1
    /\ chains[lastOp[2]].gasPrice = 12 * FeeScale
    /\ chains[lastOp[2]].lastUpdate = now
    /\ now > 0

\* C22: whenever a step changes a chain's record, by updateChainData or by
\* addGasPoint, the record's lastUpdate afterwards is the time of that step,
\* and no step lowers a record's lastUpdate.
LastUpdateIsLastMutation ==
    [][\A c \in ChainIds :
          /\ chains'[c] # chains[c] => chains'[c].lastUpdate = now'
          /\ chains'[c].lastUpdate >= chains[c].lastUpdate]_vars

\* C23: no step lowers a chain's blockNumber in the store, whatever the order
\* in which block callbacks and manual fetches of that chain complete.
BlockNumberMonotone ==
    [][\A c \in ChainIds : chains'[c].blockNumber >= chains[c].blockNumber]_vars

\* a text that denotes a decimal number: digits with at most one point, and at
\* least one digit
DenotesDecimal(value) ==
    AmountPattern(value) /\ \E i \in 1 .. Len(value) : IsDigit(value[i])

\* C24: in every reachable state simulation.amount denotes a decimal number
\* (malformed input having been rejected with the simulation record unchanged).
AmountIsDecimal == DenotesDecimal(simulation.amount)

\* C24, amended: an input outside the pattern digits-point-digits leaves the
\* simulation record unchanged, an input inside it (the empty text and a lone
\* point included) becomes the amount, so the amount always fits the pattern.
AmountFitsPattern ==
    /\ [](AmountPattern(simulation.amount))
    /\ [][lastOp'[1] = "handleAmountChange" =>
              IF AmountPattern(lastOp'[2])
              THEN simulation' = [simulation EXCEPT !.amount = lastOp'[2]]
              ELSE simulation' = simulation]_vars

\* C24 witness: a malformed amount was typed over an amount entered before, and
\* the amount entered before is still there
MalformedAmountRejected ==
    /\ lastOp[1] = "handleAmountChange"
    /\ lastOp[2] = <<"a", "b", "c">>
    /\ simulation.amount = <<"0", ".", "5">>
    /\ simulation.chain = "polygon"

\* C25: in every reachable state simulation.gasLimit is an integer of at least
\* 21000, whatever the user typed into the gas limit field.
GasLimitAtLeastMinimum == simulation.gasLimit \in Int /\ simulation.gasLimit >= 21000

\* C26: when a call of fetchCurrentGasData completes, the call has appended
\* exactly one new point for each of the three chains.
FetchCompleted ==
    /\ fetch.pc # "idle" \/ fetches' = fetches + 1
    /\ fetch'.pc = "idle"
FetchAppendsOnePerChain ==
    [][FetchCompleted =>
          /\ Len(fetch'.done) = Cardinality(ChainIds)
          /\ \A c \in ChainIds :
                 \E i \in 1 .. Len(fetch'.done) : fetch'.done[i] = <<c, "point">>]_vars

\* C27: a point the block handler appends has baseFee equal to the block's
\* base-fee field and priorityFee 2 whenever the block has that field (a field
\* of 0 stands for its absence); its fees are 0.8 and 0.2 of the aggregate gas
\* price only when the block has no such field.
FeesFollowBlockField ==
    [][(lastOp'[1] = "handleNewBlock" /\ appended'[lastOp'[3]] # appended[lastOp'[3]]) =>
          LET h     == appended'[lastOp'[3]]
              point == h[Len(h)]
              field == lastOp'[4]
              split == \E g \in FeeDataGasPrices \ {0} :
                           /\ point.baseFee = (g * 8) \div 10
                           /\ point.priorityFee = (g * 2) \div 10
          IN  /\ field # 0 =>
                     point.baseFee = field /\ point.priorityFee = DefaultPriorityFee
              /\ split => field = 0]_vars

\* C28: every point held in a chain's history has totalFee = baseFee +
\* priorityFee, and none of the three is negative, whether the block handler or
\* the simulated tick produced it.
PointsAddUp ==
    \A c \in ChainIds : \A i \in 1 .. Len(chains[c].history) :
        LET p == chains[c].history[i]
        IN  /\ p.totalFee = p.baseFee + p.priorityFee
            /\ p.baseFee >= 0 /\ p.priorityFee >= 0 /\ p.totalFee >= 0

\* C28 witness: the simulated tick drew the low end of the range for arbitrum's
\* priority fee, the draw that comes nearest to the 0.01 clamp
LowestSimulatedPoint ==
    /\ variant = "sim"
    /\ \E i \in 1 .. Len(chains["arbitrum"].history) :
           LET p == chains["arbitrum"].history[i]
           IN  /\ p.priorityFee = Jitter(baseGasPrices["arbitrum"].priority, 0,
                                         (baseGasPrices["arbitrum"].variance * 3) \div 10)
               /\ p.totalFee = p.baseFee + p.priorityFee

\* C29: in the demo service, once initialize() has run, ethUsdPrice is at least
\* the floor of 1000, after any number of ticks.
PriceAtLeastFloor ==
    (variant = "sim" /\ inits > 0) => ethUsdPrice >= PriceFloor

\* C29 witness: a tick found the price 3 above the floor (the price its points
\* carry), walked it down by 5 and the floor held it
FloorHeldThePrice ==
    /\ variant = "sim"
    /\ lastOp = <<"tick">>
    /\ ethUsdPrice = PriceFloor
    /\ \E c \in ChainIds :
           LET h == chains[c].history
           IN  h # <<>> /\ h[Len(h)].timestamp = now /\ h[Len(h)].usdPrice > PriceFloor

\* C30: in the demo service, after the k-th run of updateSimulatedData (the one
\* initialize makes being the first) every chain's history has length
\* min(k, 100); so the three histories always have the same length.
\* k: each completed initialize() ran updateSimulatedData once, and the clock
\* of the demo service advances by one with every tick of the interval
TicksRun == inits + now
OnePointPerChainPerTick ==
    /\ [](variant = "sim" =>
              \A c \in ChainIds : Len(chains[c].history) = Min(TicksRun, HistoryCap))
    /\ [][lastOp'[1] = "tick" =>
              /\ \E k \in 0 .. RandomLevels - 1 :
                     ethUsdPrice' = Max(PriceFloor, ethUsdPrice + Jitter(0, k, 10 * 100))
              /\ \A c \in ChainIds :
                     /\ Len(appended'[c]) = Len(appended[c]) + 1
                     /\ chains'[c].history # <<>>
                     /\ chains'[c].history[Len(chains'[c].history)]
                            = appended'[c][Len(appended'[c])]
                     /\ appended'[c][Len(appended'[c])].timestamp = now'
                     /\ chains'[c].lastUpdate = now']_vars

\* C30 witness: more ticks have run than a history holds, and the three
\* histories are all at the cap
TickedPastTheCap ==
    /\ variant = "sim"
    /\ lastOp = <<"tick">>
    /\ TicksRun = HistoryCap + 1
    /\ \A c \in ChainIds : Len(chains[c].history) = HistoryCap

\* C31: setEthUsdPrice, setMode, setLoading and setError each change only
\* their own field of the store (to the value passed); chains with every
\* history, simulation and all other fields are as before.
ScalarSettersFrame ==
    [][/\ lastOp'[1] = "setEthUsdPrice" =>
              /\ ethUsdPrice' = lastOp'[2]
              /\ UNCHANGED <<mode, chains, simulation, storeProviders, isLoading, error>>
       /\ lastOp'[1] = "store.setMode" =>
              /\ mode' = lastOp'[2]
              /\ UNCHANGED <<chains, ethUsdPrice, simulation, storeProviders, isLoading,
                             error>>
       /\ lastOp'[1] = "setLoading" =>
              /\ isLoading' = lastOp'[2]
              /\ UNCHANGED <<mode, chains, ethUsdPrice, simulation, storeProviders, error>>
       /\ lastOp'[1] = "setError" =>
              /\ error' = lastOp'[2]
              /\ UNCHANGED <<mode, chains, ethUsdPrice, simulation, storeProviders,
                             isLoading>>]_vars

\* C31 witness: an error was set on a store that is loading, in simulation
\* mode, with a price, a point in a history and a chain chosen in the panel
ErrorSetOnBusyStore ==
    /\ lastOp = <<"setError", "Failed to initialize">>
    /\ error = "Failed to initialize"
    /\ isLoading
    /\ mode = "simulation"
    /\ ethUsdPrice = FallbackPrice
    /\ chains["ethereum"].history # <<>>
    /\ simulation.chain = "arbitrum"

\* C32: the chain the panel names as cheapest has a gasCostUSD that no other
\* chain undercuts, and every chain before it in the order ethereum, polygon,
\* arbitrum costs strictly more.
CheapestIsFirstMinimum ==
    lastOp[1] = "getCheapestChain" =>
        LET costs == getTransactionCosts(simulation, chains, ethUsdPrice)
            named == lastOp[2]
            at    == CHOOSE i \in 1 .. Len(ChainOrder) : ChainOrder[i] = named
        IN  /\ named \in ChainIds
            /\ \A c \in ChainIds : costs[named].gasCostUSD <= costs[c].gasCostUSD
            /\ \A i \in 1 .. at - 1 :
                   costs[ChainOrder[i]].gasCostUSD > costs[named].gasCostUSD

\* C32 witness: polygon and arbitrum tie for the lowest gas cost, below
\* ethereum's, and polygon is named
TieNamesTheFirst ==
    /\ lastOp = <<"getCheapestChain", "polygon">>
    /\ ethUsdPrice > 0
    /\ LET costs == getTransactionCosts(simulation, chains, ethUsdPrice)
       IN  /\ costs["polygon"].gasCostUSD = costs["arbitrum"].gasCostUSD
           /\ costs["polygon"].gasCostUSD < costs["ethereum"].gasCostUSD
           /\ costs["polygon"].gasCostUSD > 0

UsdPriceIsPriceAtCapture ==
    [][\A c \in ChainIds :
           Len(appended'[c]) > Len(appended[c]) =>
               appended'[c][Len(appended'[c])].usdPrice = ethUsdPrice]_vars

\* C35: when disconnect() ran while an initialize() was in flight and that
\* initialize() has completed too, the service holds no connection, has no
\* block handler registered and no timer scheduled, and is not initialized.
DisconnectDuringInitialize ==
    (stopped /\ lastOp[1] = "initialized") =>
        /\ providers = <<>>
        /\ \A p \in Pids : listeners[p] = 0
        /\ timers = 0
        /\ ~isInitialized

\* C36: initialize() called again before the first call has completed: the two
\* calls together open at most one connection per chain, register at most one
\* block handler per chain and schedule at most one periodic timer.
RECURSIVE ListenersOn(_)
ListenersOn(ps) ==
    IF ps = {} THEN 0
    ELSE LET p == CHOOSE q \in ps : TRUE IN listeners[p] + ListenersOn(ps \ {p})

InitializeOnceOverall ==
    /\ \A c \in ChainIds : Cardinality({p \in opened : p[2] = c}) <= 1
    /\ \A c \in ChainIds : ListenersOn({p \in Pids : p[2] = c}) <= 1
    /\ timers <= 1

\* C37: between ingestion steps, every chain with a non-empty history has its
\* current baseFee, priorityFee and gasPrice equal to the baseFee, priorityFee
\* and totalFee of the last point of its history.
SnapshotIsLastPoint ==
    \A c \in ChainIds :
        LET h == chains[c].history
        IN  h # <<>> =>
                /\ chains[c].baseFee = h[Len(h)].baseFee
                /\ chains[c].priorityFee = h[Len(h)].priorityFee
                /\ chains[c].gasPrice = h[Len(h)].totalFee

\* C37 witness: a chain's snapshot was overwritten by a later ingestion step
\* with other fees than those of the point before
SnapshotOverwritten ==
    \E c \in ChainIds :
        LET h == chains[c].history
        IN  /\ Len(h) >= 2
            /\ h[Len(h) - 1].baseFee # h[Len(h)].baseFee
            /\ h[Len(h) - 1].totalFee # h[Len(h)].totalFee
            /\ chains[c].gasPrice = h[Len(h)].totalFee

\* C38: the clock never going back, the timestamps of each chain's history are
\* non-decreasing from oldest to newest, however block handlers, timer ticks
\* and manual fetches interleave.
TimestampsNonDecreasing ==
    \A c \in ChainIds :
        \A i \in 1 .. Len(chains[c].history) - 1 :
            chains[c].history[i].timestamp <= chains[c].history[i + 1].timestamp

\* C38 witness: two handlers of one chain, one started by a manual fetch and
\* one by a block listener, have appended their points at different times
AppendedAtTwoTimes ==
    /\ variant = "live"
    /\ \E c \in ChainIds :
           LET h == chains[c].history
           IN  /\ lastOp[1] = "handleNewBlock"
               /\ Len(h) = 2
               /\ h = appended[c]
               /\ h[1].timestamp < h[2].timestamp

\* C39: getChartData partitions the window: every raw point with a timestamp in
\* [now - 24h, now] is in the bucket of exactly one returned point, a point
\* older than now - 24h is in none, and the sizes of the buckets behind the
\* returned points add up to the number of raw points inside the window.
RECURSIVE SumOfSizes(_)
SumOfSizes(sizes) ==
    IF sizes = <<>> THEN 0 ELSE sizes[1] + SumOfSizes(Tail(sizes))

ChartPartitionsWindow ==
    lastOp[1] = "getChartData" =>
        LET c        == lastOp[2]
            iv       == lastOp[3]
            res      == lastOp[4]
            h        == chains[c].history
            start    == now - ChartWindow
            inside   == {i \in 1 .. Len(h) :
                            h[i].timestamp >= start /\ h[i].timestamp <= now}
            holds(i) == {j \in 1 .. Len(res) : i \in RawIn(c, res[j].timestamp, iv)}
            sizes    == [j \in 1 .. Len(res) |->
                            Len(intervalPoints(filteredHistory(h, start),
                                               res[j].timestamp, iv))]
        IN  /\ \A i \in inside : Cardinality(holds(i)) = 1
            /\ \A i \in (1 .. Len(h)) \ inside : holds(i) = {}
            /\ SumOfSizes(sizes) = Cardinality(inside)

\* C39 witness: a chart drawn over a history of three points, one older than
\* the window and two inside it that fall into different buckets
ChartOverWindowEdges ==
    /\ lastOp[1] = "getChartData"
    /\ lastOp[2] = "ethereum"
    /\ LET h == chains["ethereum"].history
       IN  /\ Len(h) = 3
           /\ Cardinality({i \in 1 .. Len(h) : h[i].timestamp < now - ChartWindow}) = 1
    /\ Len(lastOp[4]) = 2

====
